---- MODULE Spec2Model ----
(***************************************************************************)
(* Model of solarnet/utils/ml.py: compute_class_weights (inverse-frequency *)
(* class weights with additive smoothing) and find_best_checkpoint (parse  *)
(* a metric out of every checkpoint file name and keep the best one).      *)
(*                                                                         *)
(* Numbers.  Python floats are modelled by exact rationals.  A count of    *)
(* the caller's dict is the rational data[k] / den, the smoothing factor   *)
(* is a pair <<numerator, denominator>> (0.15 = <<3, 20>>), and weights,   *)
(* clip ceilings and checkpoint metrics are integers in hundredths         *)
(* (10.0 = 1000, 0.91 = 91).  The counts are Python ints, as the signature *)
(* Dict[Any, int] says, so a division by zero raises ZeroDivisionError.    *)
(* Where the float arithmetic is not exact (a smoothing such as 0.15 took  *)
(* part) a ratio that is exactly halfway between two hundredths may round  *)
(* to either of them: the call chooses a direction for every class.        *)
(***************************************************************************)
EXTENDS Integers, Sequences, FiniteSets

\* ------------------------------------------------------------------ bounds
MaxCount == 3
MaxCalls == 2
MaxModels == 3

\* ---------------------------------------------------- compute_class_weights
VARIABLES
    data,    \* the caller's dict: class -> numerator of its count
    den,     \* common denominator of the values of data
    orig,    \* the counts the caller put in the dict when it built it
    calls,   \* number of calls made with this dict
    args,    \* <<smoothing, clip>> of the last call, <<>> before the first
    ret,     \* outcome of the last call
    prev,    \* [args, ret] of the call before the last one, with the same dict
    base     \* [counts, args, ret] of a call made with an earlier dict

\* ----------------------------------------------------- find_best_checkpoint
VARIABLES
    models,               \* list(glob(...)): the candidate paths, in glob order
    idx,                  \* position of the for loop in models
    current_best,         \* <<>> is None, else the path
    current_best_metric,  \* <<>> is None, else <<metric>>
    pc,                   \* "idle", "start", "loop", "returned", "raised"
    error                 \* the exception raised, "" if none

wvars == <<data, den, orig, calls, args, ret, prev, base>>
cvars == <<models, idx, current_best, current_best_metric, pc, error>>
vars == <<data, den, orig, calls, args, ret, prev, base,
          models, idx, current_best, current_best_metric, pc, error>>

\* ------------------------------------------------------------------ inputs
Classes == {"a", "b", "c"}

\* every dict of counts over a subset of the classes, the empty dict included
CountMappings == UNION {[S -> 0..MaxCount] : S \in SUBSET Classes}

\* smoothing factors: 0, 0.15 (the default), 0.5, 1, and -0.5, 1.5 out of range
Smoothings == {<<0, 1>>, <<3, 20>>, <<1, 2>>, <<1, 1>>, <<-1, 2>>, <<3, 2>>}

\* clip ceilings, in hundredths: 0.5 and 10.0 (the default)
Clips == {50, 1000}

DefaultSmoothing == <<3, 20>>
DefaultClip == 1000

NoneRet == [kind |-> "none"]
Raised(e) == [kind |-> "raised", err |-> e]
Weights(w) == [kind |-> "weights", w |-> w]
NoCall == [args |-> <<>>, ret |-> NoneRet]
NoBase == [counts |-> <<>>, args |-> <<>>, ret |-> NoneRet]

\* ----------------------------------------------------------------- helpers
Range(f) == {f[x] : x \in DOMAIN f}

\* max(data.values()); the caller makes sure the dict is not empty
MaxVal(d) == CHOOSE m \in Range(d) : \A x \in Range(d) : x <= m

\* a faulty range test: only the lower end is asserted
SmoothingInRangeLowerOnly(s) == s[1] >= 0

\* assert smoothing >= 0 and smoothing <= 1
SmoothingInRange(s) == s[1] >= 0 /\ s[1] <= s[2]

\* round(float(n / d), ndigits=2) for n >= 0, d > 0, in hundredths: to the
\* nearest hundredth; an exact tie goes to the even neighbour when the float
\* is exact (dir = "even"), and else where the float's error puts it
Round2(n, d, dir) ==
    LET q == (100 * n) \div d
        r == (100 * n) % d
    IN  IF 2 * r < d THEN q
        ELSE IF 2 * r > d THEN q + 1
        ELSE IF dir = "down" THEN q
        ELSE IF dir = "up" THEN q + 1
        ELSE IF q % 2 = 0 THEN q ELSE q + 1

\* the floats hold the counts exactly when their denominator is a power of 2
RECURSIVE IsPowerOfTwo(_)
IsPowerOfTwo(n) == n = 1 \/ (n > 1 /\ n % 2 = 0 /\ IsPowerOfTwo(n \div 2))

\* is n / d exactly halfway between two hundredths
IsTie(n, d) == d > 0 /\ 2 * ((100 * n) % d) = d

\* the directions the ties of one call may take, class by class, d being the
\* dict the ratios are taken from and dn the denominator of its values
TieDirections(d, dn) ==
    IF IsPowerOfTwo(dn) THEN {[k \in DOMAIN d |-> "even"]}
    ELSE {fe \in [DOMAIN d -> {"down", "up"}] :
             \A k \in DOMAIN d : ~IsTie(MaxVal(d), d[k]) => fe[k] = "down"}

\* np.clip(x, 0, clip)
NpClip(x, clip) ==
    LET lo == IF x < 0 THEN 0 ELSE x
    IN  IF lo > clip THEN clip ELSE lo

\* a faulty smoothing: the quantity is taken from the smallest count
SmoothedFromMin(d, s) ==
    LET MinVal == CHOOSE m \in Range(d) : \A x \in Range(d) : m <= x
    IN  [k \in DOMAIN d |-> d[k] * s[2] + MinVal * s[1]]

\* the loop data[k] += smoothed_maxval, with smoothed_maxval = max * smoothing:
\* the numerators once every value is brought to the denominator den * s[2]
Smoothed(d, s) == [k \in DOMAIN d |-> d[k] * s[2] + MaxVal(d) * s[1]]

\* np.clip(round(float(majority / v), ndigits=2), 0, clip)
WeightOf(majority, v, clip, dir) == NpClip(Round2(majority, v, dir), clip)

\* the dict comprehension of the return statement; a value of 0 makes the
\* division raise
Ratios(d, clip, fe) ==
    IF \E k \in DOMAIN d : d[k] = 0
    THEN Raised("ZeroDivisionError")
    ELSE Weights([k \in DOMAIN d |-> WeightOf(MaxVal(d), d[k], clip, fe[k])])

\* does the call reach the smoothing loop and run it
Smooths(d, s) == SmoothingInRange(s) /\ s[1] > 0 /\ DOMAIN d # {}

\* the dict after the call
DataAfter(d, s) == IF Smooths(d, s) THEN Smoothed(d, s) ELSE d

\* the outcome of the call
Outcome(d, s, clip, fe) ==
    IF ~SmoothingInRange(s) THEN Raised("AssertionError")
    ELSE IF DOMAIN d = {} THEN Raised("ValueError")
    ELSE Ratios(DataAfter(d, s), clip, fe)

\* the denominator of the values of the dict after the call
DenAfter(d, dn, s) == IF Smooths(d, s) THEN dn * s[2] ELSE dn

\* one call compute_class_weights(data, smoothing=s, clip=clip) with the
\* caller's dict
compute_class_weights(s, clip) ==
    /\ calls < MaxCalls
    /\ calls' = calls + 1
    /\ args' = <<s, clip>>
    /\ prev' = [args |-> args, ret |-> ret]
    /\ data' = DataAfter(data, s)
    /\ den' = DenAfter(data, den, s)
    /\ \E fe \in TieDirections(DataAfter(data, s), DenAfter(data, den, s)) :
          ret' = Outcome(data, s, clip, fe)
    /\ UNCHANGED <<orig, base>>
    /\ UNCHANGED cvars

InitWeights ==
    /\ orig \in CountMappings
    /\ data = orig
    /\ den = 1
    /\ calls = 0
    /\ args = <<>>
    /\ ret = NoneRet
    /\ prev = NoCall
    /\ base = NoBase

IdleCheckpoint ==
    /\ models = <<>>
    /\ idx = 1
    /\ current_best = <<>>
    /\ current_best_metric = <<>>
    /\ pc = "idle"
    /\ error = ""

Init == InitWeights /\ IdleCheckpoint

Next == \E s \in Smoothings, clip \in Clips : compute_class_weights(s, clip)

Spec == Init /\ [][Next]_vars

\* ------------------------------------------- two dicts, one class increased
\* The caller builds a second dict from the counts of the first, with the
\* count of class k larger by d, to call the function again with the same
\* smoothing and clip.
IncreaseCount(k, d) ==
    /\ calls = 1
    /\ base = NoBase
    /\ k \in DOMAIN orig
    /\ orig[k] + d <= MaxCount
    /\ base' = [counts |-> orig, args |-> args, ret |-> ret]
    /\ orig' = [orig EXCEPT ![k] = @ + d]
    /\ data' = orig'
    /\ den' = 1
    /\ calls' = 0
    /\ args' = <<>>
    /\ ret' = NoneRet
    /\ prev' = NoCall
    /\ UNCHANGED cvars

\* the call on a fresh dict; on the second dict with the arguments of the first
FirstCall(s, clip) ==
    /\ calls = 0
    /\ base # NoBase => base.args = <<s, clip>>
    /\ compute_class_weights(s, clip)

NextMono ==
    \/ \E s \in Smoothings, clip \in Clips : FirstCall(s, clip)
    \/ \E k \in Classes, d \in 1..MaxCount : IncreaseCount(k, d)

SpecMono == Init /\ [][NextMono]_vars

\* ----------------------------------------------------- find_best_checkpoint
\* A path is the sequence of the pieces of its file name (the folder is cut
\* off by os.path.basename): a word, a decimal literal, the divider "_", the
\* dash "-" or the extension ".pth".  No two pieces put side by side read as
\* one decimal literal.
Ext == ".pth"
Divider == "_"
Dash == "-"

\* float(literal) in hundredths; float("nan") is the NaN below
NaN == -1
FloatTable ==
    [l \in {"0.0", "0.5", "0.50", "0.70", "0.91", "1.0", "nan"} |->
        CASE l = "0.0" -> 0
          [] l = "0.5" -> 50
          [] l = "0.50" -> 50
          [] l = "0.70" -> 70
          [] l = "0.91" -> 91
          [] l = "1.0" -> 100
          [] l = "nan" -> NaN]

\* the checkpoint files a folder may hold
Names == {
    <<"classifier", Divider, "0.70", Dash, "0.70", Ext>>,
    <<"classifier", Divider, "0.91", Dash, "0.91", Ext>>,
    <<"segmenter", Divider, "0.50", Ext>>,
    <<"segmenter", Divider, "unet", Divider, "f1", Dash, "0.91", Ext>>,
    <<"classifier", Divider, "0.0", Ext>>,
    <<"segmenter", Divider, "0.0", Ext>>,
    <<"classifier", Ext, Divider, "0.5", Ext>>,
    <<"unknown", Divider, "1.0", Ext>>,
    <<"classifier", Ext>>,
    <<"classifier", Divider, "a", Divider, "b", Divider, "1.0", Ext>>,
    <<"segmenter", Divider, "best", Ext>>,
    <<"classifier", Divider, "0.70", Dash, Ext>>,
    <<"segmenter", Divider, "nan", Ext>> }

\* what glob may return: the files of the folder that match, each once
Listings ==
    {l \in UNION {[1..n -> Names] : n \in 0..MaxModels} :
        \A i, j \in DOMAIN l : i # j => l[i] # l[j]}

\* os.path.basename(model_path).replace(".pth", "")
StripExt(path) == SelectSeq(path, LAMBDA t : t # Ext)

\* str.split(sep): the pieces between the separators, at least one
RECURSIVE Split(_, _)
Split(s, sep) ==
    IF \A i \in DOMAIN s : s[i] # sep THEN <<s>>
    ELSE LET i == CHOOSE x \in DOMAIN s :
                      s[x] = sep /\ \A y \in 1..(x - 1) : s[y] # sep
         IN  <<SubSeq(s, 1, i - 1)>> \o Split(SubSeq(s, i + 1, Len(s)), sep)

Components(path) == Split(StripExt(path), Divider)

\* the tuple unpacking: three names when len(components) > 2, two otherwise
Unpacks(path) ==
    IF Len(Components(path)) > 2 THEN Len(Components(path)) = 3
    ELSE Len(Components(path)) = 2

\* a faulty type test: the assertion on the model type is gone
AnyType(path) == TRUE

\* assert mtype == "classifier" or mtype == "segmenter"
KnownType(path) ==
    Components(path)[1] = <<"classifier">> \/ Components(path)[1] = <<"segmenter">>

\* metric_str.split("-")[-1], with metric_str the last component
MetricText(path) ==
    LET metric_str == Components(path)[Len(Components(path))]
        parts == Split(metric_str, Dash)
    IN  parts[Len(parts)]

\* does float(...) accept the text
Parses(text) == Len(text) = 1 /\ text[1] \in DOMAIN FloatTable

\* model_metric = float(metric_str.split("-")[-1])
ModelMetric(path) == FloatTable[MetricText(path)[1]]

\* a < b on floats: False when either is NaN
FloatLess(a, b) == a # NaN /\ b # NaN /\ a < b

\* not current_best_metric: True for None and for 0.0
Falsy(m) == m = <<>> \/ m[1] = 0

\* a faulty comparison: turned around
ReplacesWhenSmaller(best_metric, model_metric) ==
    Falsy(best_metric) \/ FloatLess(model_metric, best_metric[1])

\* not current_best_metric or current_best_metric < model_metric
Replaces(best_metric, model_metric) ==
    Falsy(best_metric) \/ FloatLess(best_metric[1], model_metric)

\* the exception the body of the loop raises on this path, "" if none
BodyError(path) ==
    IF ~Unpacks(path) THEN "ValueError"
    ELSE IF ~KnownType(path) THEN "AssertionError"
    ELSE IF ~Parses(MetricText(path)) THEN "ValueError"
    ELSE ""

\* the listing and the assertion that it is not empty
Start ==
    /\ pc = "start"
    /\ IF Len(models) > 0
       THEN pc' = "loop" /\ error' = ""
       ELSE pc' = "raised" /\ error' = "AssertionError"
    /\ idx' = 1
    /\ current_best' = <<>>
    /\ current_best_metric' = <<>>
    /\ UNCHANGED models
    /\ UNCHANGED wvars

\* one turn of the for loop
LoopBody ==
    /\ pc = "loop"
    /\ idx <= Len(models)
    /\ LET model_path == models[idx] IN
         IF BodyError(model_path) # ""
         THEN /\ pc' = "raised"
              /\ error' = BodyError(model_path)
              /\ UNCHANGED <<idx, current_best, current_best_metric>>
         ELSE /\ IF Replaces(current_best_metric, ModelMetric(model_path))
                 THEN /\ current_best_metric' = <<ModelMetric(model_path)>>
                      /\ current_best' = model_path
                 ELSE UNCHANGED <<current_best, current_best_metric>>
              /\ idx' = idx + 1
              /\ UNCHANGED <<pc, error>>
    /\ UNCHANGED models
    /\ UNCHANGED wvars

\* return current_best
Return ==
    /\ pc = "loop"
    /\ idx > Len(models)
    /\ pc' = "returned"
    /\ UNCHANGED <<models, idx, current_best, current_best_metric, error>>
    /\ UNCHANGED wvars

IdleWeights ==
    /\ orig = <<>>
    /\ data = <<>>
    /\ den = 1
    /\ calls = 0
    /\ args = <<>>
    /\ ret = NoneRet
    /\ prev = NoCall
    /\ base = NoBase

InitCheckpoint ==
    /\ IdleWeights
    /\ models \in Listings
    /\ idx = 1
    /\ current_best = <<>>
    /\ current_best_metric = <<>>
    /\ pc = "start"
    /\ error = ""

NextCheckpoint == Start \/ LoopBody \/ Return

SpecCheckpoint == InitCheckpoint /\ [][NextCheckpoint]_vars

\* ------------------------------------------------------------------ claims
\* a counts mapping the function is specified for: not empty, not all zero
ValidCounts(c) == DOMAIN c # {} /\ \E k \in DOMAIN c : c[k] > 0
AllZero(c) == \A k \in DOMAIN c : c[k] = 0
LastSmoothing == args[1]
LastClip == args[2]
\* a smoothing factor in [0, 1]
InUnitInterval(s) == 0 <= s[1] /\ s[1] <= s[2]
InRangeCall == calls >= 1 /\ InUnitInterval(LastSmoothing)

\* C3: compute_class_weights has no side effects: after a call with smoothing
\* in [0, 1] the caller's mapping holds the same count for every class as
\* before the call.
C3_NoSideEffect ==
    InRangeCall =>
        /\ DOMAIN data = DOMAIN orig
        /\ \A k \in DOMAIN orig : data[k] = orig[k] * den

\* C4: two consecutive calls with the same counts mapping, the same smoothing
\* in [0, 1] and the same clip return the same weight for every class.
C4_SameOutputTwice ==
    (calls >= 2 /\ ValidCounts(orig) /\ InRangeCall /\ prev.args = args) =>
        prev.ret = ret

\* C5: for a valid counts mapping and smoothing in [0, 1] the call returns a
\* weight for every class, and every weight lies in [0, clip].
C5_WeightsInRange ==
    (InRangeCall /\ ValidCounts(orig)) =>
        /\ ret.kind = "weights"
        /\ DOMAIN ret.w = DOMAIN orig
        /\ \A k \in DOMAIN orig : 0 <= ret.w[k] /\ ret.w[k] <= LastClip

\* C6: for a valid counts mapping, smoothing in [0, 1] and any clip, the class
\* with the maximum post-smoothing count gets weight exactly 1.0 and the ratio
\* majority / count of every class is >= 1.0 before clipping.  (After the
\* call data holds the post-smoothing counts.)
C6_MajorityIsOne ==
    (InRangeCall /\ ValidCounts(orig)) =>
        /\ ret.kind = "weights"
        /\ \A k \in DOMAIN data : data[k] = MaxVal(data) => ret.w[k] = 100
        /\ \A k \in DOMAIN data : data[k] > 0 /\ MaxVal(data) >= data[k]

\* C7: the call raises, and returns no weights, when smoothing < 0 or
\* smoothing > 1, when the counts mapping is empty, and when every count is
\* zero with smoothing in [0, 1].
C7_FailsExplicitly ==
    (calls >= 1 /\ (~InUnitInterval(LastSmoothing) \/ DOMAIN orig = {} \/ AllZero(orig))) =>
        /\ ret.kind = "raised"
        /\ ret.err \in {"AssertionError", "ValueError", "ZeroDivisionError"}

\* all counts zero, smoothing 0.15: the division raises
C7_Witness ==
    /\ calls >= 1
    /\ DOMAIN orig # {}
    /\ AllZero(orig)
    /\ LastSmoothing = DefaultSmoothing
    /\ ret = Raised("ZeroDivisionError")

\* (1 + s) / s rounded to 2 decimals, in hundredths
SmoothingCeiling(s) == Round2(s[2] + s[1], s[1], "even")

\* C10: with 0 < smoothing <= 1 and a positive maximum count every weight is
\* at most (1 + s) / s rounded to 2 decimals, whatever the clip; a class of
\* count 0 gets exactly the minimum of that value and clip; with the defaults
\* (0.15, 10.0) no weight exceeds 7.67 and the clip changes no weight.
C10_SmoothingBound ==
    (InRangeCall /\ LastSmoothing[1] > 0 /\ ValidCounts(orig)) =>
        /\ ret.kind = "weights"
        /\ \A k \in DOMAIN orig : ret.w[k] <= SmoothingCeiling(LastSmoothing)
        /\ calls = 1 =>
              \A k \in DOMAIN orig : orig[k] = 0 =>
                  ret.w[k] = NpClip(SmoothingCeiling(LastSmoothing), LastClip)
        /\ args = <<DefaultSmoothing, DefaultClip>> =>
              \A k \in DOMAIN orig :
                  /\ ret.w[k] <= 767
                  /\ ret.w[k] \in {Round2(MaxVal(data), data[k], "down"),
                                  Round2(MaxVal(data), data[k], "up")}

\* a class of count 0, defaults: its weight is 7.67
C10_Witness ==
    /\ calls = 1
    /\ args = <<DefaultSmoothing, DefaultClip>>
    /\ \E k \in DOMAIN orig : orig[k] = 0 /\ ret.kind = "weights" /\ ret.w[k] = 767

\* the second dict is the first with one class increased
IncreasedPair ==
    /\ base # NoBase
    /\ calls = 1
    /\ base.args = args
    /\ InUnitInterval(LastSmoothing)
    /\ ValidCounts(base.counts)
    /\ DOMAIN orig = DOMAIN base.counts
    /\ \E k \in DOMAIN orig :
          /\ orig[k] > base.counts[k]
          /\ \A j \in DOMAIN orig \ {k} : orig[j] = base.counts[j]

IncreasedClass == CHOOSE k \in DOMAIN orig : orig[k] > base.counts[k]

\* C9: of two valid counts mappings that differ in one class k, larger in the
\* second, with the same smoothing in [0, 1] and clip, the weight of k in the
\* second result is not greater than in the first and the weight of every
\* other class is not smaller.
C9_Monotone ==
    IncreasedPair =>
        /\ base.ret.kind = "weights"
        /\ ret.kind = "weights"
        /\ ret.w[IncreasedClass] <= base.ret.w[IncreasedClass]
        /\ \A j \in DOMAIN orig \ {IncreasedClass} : ret.w[j] >= base.ret.w[j]

\* the same, for the pairs on which both calls return and the floats are exact
MonotoneWhereBothReturn ==
    (IncreasedPair /\ base.ret.kind = "weights" /\ ret.kind = "weights"
        /\ IsPowerOfTwo(den)) =>
        /\ ret.w[IncreasedClass] <= base.ret.w[IncreasedClass]
        /\ \A j \in DOMAIN orig \ {IncreasedClass} : ret.w[j] >= base.ret.w[j]

\* a name of 2 or 3 components whose model type is classifier or segmenter
NameShapeOK(path) ==
    /\ Len(Components(path)) \in {2, 3}
    /\ Components(path)[1] \in {<<"classifier">>, <<"segmenter">>}

\* a well-formed name: the shape above and a metric that is a number
WellFormedName(path) ==
    /\ NameShapeOK(path)
    /\ Parses(MetricText(path))
    /\ ModelMetric(path) # NaN

\* C1: on a non-empty sequence of well-formed names find_best_checkpoint
\* returns one of the candidates, and its metric is greater than or equal to
\* the metric of every candidate, in every enumeration order.
C1_BestIsMax ==
    (pc = "returned" /\ Len(models) > 0
        /\ \A i \in DOMAIN models : WellFormedName(models[i])) =>
        /\ \E i \in DOMAIN models : current_best = models[i]
        /\ \A j \in DOMAIN models :
              ModelMetric(current_best) >= ModelMetric(models[j])

\* three candidates, the first of metric 0.0, the best one in the middle
C1_Witness ==
    /\ pc = "returned"
    /\ Len(models) = 3
    /\ \A i \in DOMAIN models : WellFormedName(models[i])
    /\ ModelMetric(models[1]) = 0
    /\ current_best = models[2]
    /\ ModelMetric(models[2]) > ModelMetric(models[3])

\* the first position among the first n candidates that holds their maximum
FirstMax(n) ==
    CHOOSE i \in 1..n :
        /\ \A j \in 1..n : ModelMetric(models[j]) <= ModelMetric(models[i])
        /\ \A j \in 1..(i - 1) : ModelMetric(models[j]) < ModelMetric(models[i])

\* C2: the tracked best path is the first candidate, in encounter order, that
\* holds the maximum of the metrics seen so far (it is replaced only by a
\* strictly greater metric), for every value of the maximum, 0.0 included.
C2_FirstOfTies ==
    (pc \in {"loop", "returned"} /\ idx > 1
        /\ \A i \in 1..(idx - 1) : WellFormedName(models[i])) =>
        current_best = models[FirstMax(idx - 1)]

\* the same, when the maximum seen so far is positive
FirstOfTiesPositive ==
    (pc \in {"loop", "returned"} /\ idx > 1
        /\ (\A i \in 1..(idx - 1) : WellFormedName(models[i]))
        /\ ModelMetric(models[FirstMax(idx - 1)]) > 0) =>
        current_best = models[FirstMax(idx - 1)]

\* C8: find_best_checkpoint returns a path only when there is a candidate and
\* every candidate has 2 or 3 components, a known model type and a metric
\* float() accepts; it raises when no file matches and when a candidate, at
\* any position, has another model type or another number of components; the
\* loop stops only by returning after the last candidate or by raising.
C8_ReturnsOnlyWellFormed ==
    /\ pc = "returned" =>
          /\ Len(models) > 0
          /\ \E i \in DOMAIN models : current_best = models[i]
          /\ \A i \in DOMAIN models :
                NameShapeOK(models[i]) /\ Parses(MetricText(models[i]))
    /\ pc = "loop" => \A i \in 1..(idx - 1) : NameShapeOK(models[i])
    /\ pc = "raised" =>
          /\ error \in {"AssertionError", "ValueError"}
          /\ \/ Len(models) = 0
             \/ ~NameShapeOK(models[idx])
             \/ ~Parses(MetricText(models[idx]))
    /\ pc \in {"start", "loop", "returned", "raised"}
    /\ pc = "loop" => idx <= Len(models) + 1

\* an unknown model type in the last of three candidates, after two good ones
C8_Witness ==
    /\ pc = "raised"
    /\ error = "AssertionError"
    /\ Len(models) = 3
    /\ idx = 3
    /\ Len(Components(models[3])) = 2
    /\ Components(models[3])[1] = <<"unknown">>

====
